---------------------------- MODULE Spec2Model ----------------------------
(***************************************************************************)
(* A model of the graph container library of src/lib.rs: the vertex table, *)
(* the representation selector GraphRepr with its two stores               *)
(* (AdjacencyList, AdjacencyMatrix) and the facade operations insert, get, *)
(* connect and get_edge.                                                   *)
(*                                                                         *)
(* A HashMap<K, X> is a function whose DOMAIN is the set of keys present.  *)
(* An Option<X> is a sequence of length at most one: None is <<>> and      *)
(* Some(x) is <<x>>.  A Vec is a sequence; the usize index i of the source *)
(* is position i + 1 of the sequence.                                      *)
(***************************************************************************)
EXTENDS Naturals, Sequences, FiniteSets

(***************************************************************************)
(* Bounds of the model.                                                    *)
(***************************************************************************)
NumKeys == 3
MaxCalls == 4

Keys == 1..NumKeys
Values == {"hi", "bye"}
Weights == {"w1", "w2"}

VARIABLES
  vertex_map,   \* WeightedDigraph.vertex_map : HashMap<K, V>
  repr,         \* WeightedDigraph.repr : GraphRepr<K, E>
  panicked,     \* TRUE once an index expression went out of bounds
  twin,         \* a second store given the same calls as repr, or NoTwin
  last_call,    \* history: the most recent call and its arguments
  prev,         \* history: vertex_map and repr as they were before last_call
  last_insert,  \* history: key |-> payload of the most recent insert(key, _)
  inserts,      \* history: number of insert calls made
  calls         \* history: number of calls made

vars == <<vertex_map, repr, panicked, twin, last_call, prev, last_insert,
          inserts, calls>>

(***************************************************************************)
(* Option and HashMap.                                                     *)
(***************************************************************************)
None == <<>>
Some(x) == <<x>>

HashMap_new == <<>>
HashMap_get(m, k) == IF k \in DOMAIN m THEN Some(m[k]) ELSE None
HashMap_insert(m, k, x) ==
  [y \in (DOMAIN m) \cup {k} |-> IF y = k THEN x ELSE m[y]]

(***************************************************************************)
(* AdjacencyList: list : HashMap<K, HashMap<K, E>>.                        *)
(***************************************************************************)
AdjacencyList_new == [variant |-> "AdjacencyList", list |-> HashMap_new]

\* variant: an existing neighbour map is kept (entry(key).or_default())
AdjacencyList_insert_keeps_edges(l, key) ==
  IF key \in DOMAIN l.list
    THEN l
    ELSE [l EXCEPT !.list = HashMap_insert(l.list, key, HashMap_new)]

AdjacencyList_insert(l, key) ==
  [l EXCEPT !.list = HashMap_insert(l.list, key, HashMap_new)]

\* variant: the edge is stored in both directions
AdjacencyList_connect_mirrored(l, u, v, weight) ==
  IF u \notin DOMAIN l.list
    THEN l
    ELSE LET fwd == HashMap_insert(l.list, u,
                                   HashMap_insert(l.list[u], v, weight))
         IN  IF v \notin DOMAIN fwd
               THEN [l EXCEPT !.list = fwd]
               ELSE [l EXCEPT !.list =
                       HashMap_insert(fwd, v, HashMap_insert(fwd[v], u, weight))]

\* variant: a missing source vertex is created (entry(u).or_default())
AdjacencyList_connect_creates_u(l, u, v, weight) ==
  LET edge_list == IF u \in DOMAIN l.list THEN l.list[u] ELSE HashMap_new
  IN  [l EXCEPT !.list =
         HashMap_insert(l.list, u, HashMap_insert(edge_list, v, weight))]

\* variant: the target vertex is validated too
AdjacencyList_connect_checks_v(l, u, v, weight) ==
  IF u \notin DOMAIN l.list \/ v \notin DOMAIN l.list
    THEN l
    ELSE [l EXCEPT !.list =
            HashMap_insert(l.list, u, HashMap_insert(l.list[u], v, weight))]

AdjacencyList_connect(l, u, v, weight) ==
  IF u \notin DOMAIN l.list
    THEN l
    ELSE [l EXCEPT !.list =
            HashMap_insert(l.list, u, HashMap_insert(l.list[u], v, weight))]

AdjacencyList_get_edge(l, u, v) ==
  IF u \notin DOMAIN l.list THEN None ELSE HashMap_get(l.list[u], v)

(***************************************************************************)
(* AdjacencyMatrix: idx_map : HashMap<K, usize>,                           *)
(* matrix : Vec<Vec<Option<E>>>.                                           *)
(***************************************************************************)
AdjacencyMatrix_new ==
  [variant |-> "AdjacencyMatrix", idx_map |-> HashMap_new, matrix |-> <<>>]

\* variant: the table is rebuilt at the new size without its old cells
AdjacencyMatrix_insert_clears(m, key) ==
  LET size == Len(m.matrix)
      row == [j \in 1..(size + 1) |-> None]
  IN  [m EXCEPT !.matrix = [i \in 1..(size + 1) |-> row],
                !.idx_map = HashMap_insert(m.idx_map, key, size)]

\* variant: the existing rows are not extended
AdjacencyMatrix_insert_rows_not_grown(m, key) ==
  LET size == Len(m.matrix)
      row == [j \in 1..(size + 1) |-> None]
  IN  [m EXCEPT !.matrix = Append(m.matrix, row),
                !.idx_map = HashMap_insert(m.idx_map, key, size)]

AdjacencyMatrix_insert(m, key) ==
  LET grown == [i \in 1..Len(m.matrix) |-> Append(m.matrix[i], None)]
      size == Len(m.matrix)
      row == [j \in 1..(size + 1) |-> None]
  IN  [m EXCEPT !.matrix = Append(grown, row),
                !.idx_map = HashMap_insert(m.idx_map, key, size)]

\* variant: a key without an index resolves to index 0 (unwrap_or_default())
idxs_defaults(m, u, v) ==
  Some(<<IF u \in DOMAIN m.idx_map THEN m.idx_map[u] ELSE 0,
         IF v \in DOMAIN m.idx_map THEN m.idx_map[v] ELSE 0>>)

\* Option<(usize, usize)>
idxs(m, u, v) ==
  IF u \in DOMAIN m.idx_map /\ v \in DOMAIN m.idx_map
    THEN Some(<<m.idx_map[u], m.idx_map[v]>>)
    ELSE None

\* matrix[i][j] is in bounds
InBounds(m, i, j) ==
  /\ i + 1 \in 1..Len(m.matrix)
  /\ j + 1 \in 1..Len(m.matrix[i + 1])

AdjacencyMatrix_connect_panics(m, u, v) ==
  /\ idxs(m, u, v) # None
  /\ ~InBounds(m, idxs(m, u, v)[1][1], idxs(m, u, v)[1][2])

\* variant: an occupied cell keeps its payload
AdjacencyMatrix_connect_keeps_first(m, u, v, weight) ==
  IF idxs(m, u, v) = None \/ AdjacencyMatrix_connect_panics(m, u, v)
    THEN m
    ELSE LET u_idx == idxs(m, u, v)[1][1]
             v_idx == idxs(m, u, v)[1][2]
         IN  IF m.matrix[u_idx + 1][v_idx + 1] # None
               THEN m
               ELSE [m EXCEPT !.matrix[u_idx + 1][v_idx + 1] = Some(weight)]

\* variant: row and column are swapped
AdjacencyMatrix_connect_transposed(m, u, v, weight) ==
  IF idxs(m, u, v) = None \/ AdjacencyMatrix_connect_panics(m, u, v)
    THEN m
    ELSE LET u_idx == idxs(m, u, v)[1][1]
             v_idx == idxs(m, u, v)[1][2]
         IN  [m EXCEPT !.matrix[v_idx + 1][u_idx + 1] = Some(weight)]

AdjacencyMatrix_connect(m, u, v, weight) ==
  IF idxs(m, u, v) = None \/ AdjacencyMatrix_connect_panics(m, u, v)
    THEN m
    ELSE LET u_idx == idxs(m, u, v)[1][1]
             v_idx == idxs(m, u, v)[1][2]
         IN  [m EXCEPT !.matrix[u_idx + 1][v_idx + 1] = Some(weight)]

AdjacencyMatrix_get_edge_panics(m, u, v) ==
  /\ idxs(m, u, v) # None
  /\ ~InBounds(m, idxs(m, u, v)[1][1], idxs(m, u, v)[1][2])

\* variant: row and column are swapped in the lookup
AdjacencyMatrix_get_edge_transposed(m, u, v) ==
  IF idxs(m, u, v) = None \/ AdjacencyMatrix_get_edge_panics(m, u, v)
    THEN None
    ELSE m.matrix[idxs(m, u, v)[1][2] + 1][idxs(m, u, v)[1][1] + 1]

AdjacencyMatrix_get_edge(m, u, v) ==
  IF idxs(m, u, v) = None \/ AdjacencyMatrix_get_edge_panics(m, u, v)
    THEN None
    ELSE m.matrix[idxs(m, u, v)[1][1] + 1][idxs(m, u, v)[1][2] + 1]

(***************************************************************************)
(* GraphRepr: the tagged union over the two stores.                        *)
(***************************************************************************)
\* variant: the matrix store is the default
GraphRepr_default_matrix == AdjacencyMatrix_new

GraphRepr_default == AdjacencyList_new

GraphRepr_insert(r, key) ==
  IF r.variant = "AdjacencyList"
    THEN AdjacencyList_insert(r, key)
    ELSE AdjacencyMatrix_insert(r, key)

\* variant: a self-loop is refused
GraphRepr_connect_no_self_loops(r, u, v, weight) ==
  IF u = v
    THEN r
    ELSE IF r.variant = "AdjacencyList"
           THEN AdjacencyList_connect(r, u, v, weight)
           ELSE AdjacencyMatrix_connect(r, u, v, weight)

GraphRepr_connect(r, u, v, weight) ==
  IF r.variant = "AdjacencyList"
    THEN AdjacencyList_connect(r, u, v, weight)
    ELSE AdjacencyMatrix_connect(r, u, v, weight)

GraphRepr_connect_panics(r, u, v) ==
  /\ r.variant = "AdjacencyMatrix"
  /\ AdjacencyMatrix_connect_panics(r, u, v)

GraphRepr_get_edge(r, u, v) ==
  IF r.variant = "AdjacencyList"
    THEN AdjacencyList_get_edge(r, u, v)
    ELSE AdjacencyMatrix_get_edge(r, u, v)

GraphRepr_get_edge_panics(r, u, v) ==
  /\ r.variant = "AdjacencyMatrix"
  /\ AdjacencyMatrix_get_edge_panics(r, u, v)

\* no second store is kept
NoTwin == [variant |-> "None"]
\* the calls as the second store receives them
Twin_insert(t, key) ==
  IF t.variant = "None" THEN t ELSE GraphRepr_insert(t, key)
Twin_connect(t, u, v, weight) ==
  IF t.variant = "None" THEN t ELSE GraphRepr_connect(t, u, v, weight)

\* the keys of the active store's internal structure
GraphRepr_keys(r) ==
  IF r.variant = "AdjacencyList" THEN DOMAIN r.list ELSE DOMAIN r.idx_map

(***************************************************************************)
(* The facade: reads.                                                      *)
(***************************************************************************)
get(key) == HashMap_get(vertex_map, key)
get_edge(u, v) == GraphRepr_get_edge(repr, u, v)

(***************************************************************************)
(* The facade: construction.                                               *)
(***************************************************************************)
Built(r, t) ==
  /\ vertex_map = HashMap_new
  /\ repr = r
  /\ panicked = FALSE
  /\ twin = t
  /\ last_call = [op |-> "new"]
  /\ prev = [vertex_map |-> HashMap_new, repr |-> r]
  /\ last_insert = HashMap_new
  /\ inserts = 0
  /\ calls = 0

\* WeightedDigraph::new(): the list store
Init == Built(GraphRepr_default, NoTwin)

\* a facade whose selector holds the matrix store
InitMatrix == Built(AdjacencyMatrix_new, NoTwin)

\* either store
InitAny == Init \/ InitMatrix

\* the list store, and a matrix store that is given the same calls
InitBoth == Built(AdjacencyList_new, AdjacencyMatrix_new)

(***************************************************************************)
(* The facade: writes.                                                     *)
(***************************************************************************)
Called(call) ==
  /\ ~panicked
  /\ calls < MaxCalls
  /\ calls' = calls + 1
  /\ last_call' = call
  /\ prev' = [vertex_map |-> vertex_map, repr |-> repr]

\* variant: an existing vertex payload is kept (entry(key).or_insert(value))
WeightedDigraph_insert_keeps_payload(key, value) ==
  /\ Called([op |-> "insert", key |-> key, value |-> value])
  /\ vertex_map' = IF key \in DOMAIN vertex_map
                     THEN vertex_map
                     ELSE HashMap_insert(vertex_map, key, value)
  /\ repr' = GraphRepr_insert(repr, key)
  /\ twin' = Twin_insert(twin, key)
  /\ last_insert' = HashMap_insert(last_insert, key, value)
  /\ inserts' = inserts + 1
  /\ UNCHANGED panicked

\* variant: the key is not forwarded to the representation
WeightedDigraph_insert_skips_repr(key, value) ==
  /\ Called([op |-> "insert", key |-> key, value |-> value])
  /\ vertex_map' = HashMap_insert(vertex_map, key, value)
  /\ repr' = repr
  /\ twin' = Twin_insert(twin, key)
  /\ last_insert' = HashMap_insert(last_insert, key, value)
  /\ inserts' = inserts + 1
  /\ UNCHANGED panicked

WeightedDigraph_insert(key, value) ==
  /\ Called([op |-> "insert", key |-> key, value |-> value])
  /\ vertex_map' = HashMap_insert(vertex_map, key, value)
  /\ repr' = GraphRepr_insert(repr, key)
  /\ twin' = Twin_insert(twin, key)
  /\ last_insert' = HashMap_insert(last_insert, key, value)
  /\ inserts' = inserts + 1
  /\ UNCHANGED panicked

\* variant: the edge is also stored from v to u
WeightedDigraph_connect_mirrors(u, v, weight) ==
  /\ Called([op |-> "connect", u |-> u, v |-> v, weight |-> weight])
  /\ repr' = GraphRepr_connect(GraphRepr_connect(repr, u, v, weight),
                               v, u, weight)
  /\ twin' = Twin_connect(Twin_connect(twin, u, v, weight), v, u, weight)
  /\ panicked' = GraphRepr_connect_panics(repr, u, v)
  /\ UNCHANGED <<vertex_map, last_insert, inserts>>

WeightedDigraph_connect(u, v, weight) ==
  /\ Called([op |-> "connect", u |-> u, v |-> v, weight |-> weight])
  /\ repr' = GraphRepr_connect(repr, u, v, weight)
  /\ twin' = Twin_connect(twin, u, v, weight)
  /\ panicked' = GraphRepr_connect_panics(repr, u, v)
  /\ UNCHANGED <<vertex_map, last_insert, inserts>>

\* variant: the mirrored connect is left out
Graph_connect_one_way(u, v, weight) ==
  /\ Called([op |-> "connect", u |-> u, v |-> v, weight |-> weight])
  /\ repr' = GraphRepr_connect(repr, u, v, weight)
  /\ twin' = Twin_connect(twin, u, v, weight)
  /\ panicked' = GraphRepr_connect_panics(repr, u, v)
  /\ UNCHANGED <<vertex_map, last_insert, inserts>>

\* Graph / WeightedGraph: connect(u, v) also creates v -> u
Graph_connect(u, v, weight) ==
  /\ Called([op |-> "connect", u |-> u, v |-> v, weight |-> weight])
  /\ repr' = GraphRepr_connect(GraphRepr_connect(repr, u, v, weight),
                               v, u, weight)
  /\ twin' = Twin_connect(Twin_connect(twin, u, v, weight), v, u, weight)
  /\ panicked' = (\/ GraphRepr_connect_panics(repr, u, v)
                  \/ GraphRepr_connect_panics(repr, v, u))
  /\ UNCHANGED <<vertex_map, last_insert, inserts>>

Insert == \E key \in Keys, value \in Values : WeightedDigraph_insert(key, value)
Connect == \E u \in Keys, v \in Keys, weight \in Weights :
             WeightedDigraph_connect(u, v, weight)
ConnectUndirected == \E u \in Keys, v \in Keys, weight \in Weights :
                       Graph_connect(u, v, weight)

Next == Insert \/ Connect
NextUndirected == Insert \/ ConnectUndirected

\* the directed facade as built by new()
Spec == Init /\ [][Next]_vars
\* the directed facade over the matrix store
SpecMatrix == InitMatrix /\ [][Next]_vars
\* the directed facade over either store
SpecAny == InitAny /\ [][Next]_vars
\* the undirected facade over either store
SpecUndirected == InitAny /\ [][NextUndirected]_vars

\* well-formed use: a key is inserted at most once, and connect names only
\* keys already inserted
InsertFresh == \E key \in Keys \ DOMAIN vertex_map, value \in Values :
                 WeightedDigraph_insert(key, value)
ConnectInserted == \E u \in DOMAIN vertex_map, v \in DOMAIN vertex_map,
                      weight \in Weights :
                     WeightedDigraph_connect(u, v, weight)
NextWellFormed == InsertFresh \/ ConnectInserted
\* the list store and the matrix store under the same well-formed calls
SpecWellFormed == InitBoth /\ [][NextWellFormed]_vars
\* the same two stores under any calls
SpecBoth == InitBoth /\ [][Next]_vars

(***************************************************************************)
(* Vocabulary of the properties.                                           *)
(***************************************************************************)
\* the keys some insert call has named
Inserted == DOMAIN last_insert
\* get_edge as it answered before the most recent call
prev_get_edge(u, v) == GraphRepr_get_edge(prev.repr, u, v)
IsInsert == last_call.op = "insert"
IsConnect == last_call.op = "connect"
\* number of edges stored out of u
OutDegree(r, u) ==
  Cardinality({v \in Keys : GraphRepr_get_edge(r, u, v) # None})
\* number of entries stored for u (neighbour-map entries, or occupied cells
\* of u's row)
StoredOut(r, u) ==
  IF r.variant = "AdjacencyList"
    THEN IF u \in DOMAIN r.list THEN Cardinality(DOMAIN r.list[u]) ELSE 0
    ELSE IF u \in DOMAIN r.idx_map /\ r.idx_map[u] + 1 \in 1..Len(r.matrix)
           THEN Cardinality({j \in 1..Len(r.matrix[r.idx_map[u] + 1]) :
                               r.matrix[r.idx_map[u] + 1][j] # None})
           ELSE 0

(***************************************************************************)
(* C1.  After any sequence of insert and connect calls, get(k) is Some of  *)
(* the payload of the most recent insert(k, _), and None for every key     *)
(* that no insert call has named.                                          *)
(***************************************************************************)
C1_GetReturnsLastInsert ==
  \A k \in Keys :
    get(k) = IF k \in Inserted THEN Some(last_insert[k]) ELSE None

\* a key was inserted twice, another never, and a connect came last
C1_Witness ==
  /\ IsConnect
  /\ Inserted # {}
  /\ Inserted # Keys
  /\ inserts > Cardinality(Inserted)

(***************************************************************************)
(* C2.  Directed facade: right after connect(u, v, w) with u and v         *)
(* inserted, get_edge(u, v) is Some(w) and the call has not created the    *)
(* edge (v, u); an edge (x, y) comes into being only in a connect(x, y, _) *)
(* call, so get_edge(v, u) is None unless connect(v, u, _) was executed.   *)
(***************************************************************************)
C2_ConnectPost ==
  (IsConnect /\ last_call.u \in Inserted /\ last_call.v \in Inserted) =>
    /\ get_edge(last_call.u, last_call.v) = Some(last_call.weight)
    /\ (last_call.v # last_call.u =>
          get_edge(last_call.v, last_call.u)
            = prev_get_edge(last_call.v, last_call.u))

C2_EdgeOnlyByItsConnect ==
  \A x \in Keys, y \in Keys :
    (get_edge(x, y) = None /\ get_edge(x, y)' # None) =>
      /\ last_call'.op = "connect"
      /\ last_call'.u = x
      /\ last_call'.v = y

C2_DirectedConnect == [][C2_ConnectPost' /\ C2_EdgeOnlyByItsConnect]_vars

\* connect(u, v, w) on two distinct inserted keys, the reverse edge absent
C2_Witness ==
  /\ IsConnect
  /\ last_call.u \in Inserted
  /\ last_call.v \in Inserted
  /\ last_call.u # last_call.v
  /\ get_edge(last_call.u, last_call.v) = Some(last_call.weight)
  /\ get_edge(last_call.v, last_call.u) = None

(***************************************************************************)
(* C3.  Undirected facade: after connect(u, v, w) with u and v inserted,   *)
(* get_edge(u, v) and get_edge(v, u) are both Some(w).                     *)
(***************************************************************************)
C3_UndirectedConnect ==
  (IsConnect /\ last_call.u \in Inserted /\ last_call.v \in Inserted) =>
    /\ get_edge(last_call.u, last_call.v) = Some(last_call.weight)
    /\ get_edge(last_call.v, last_call.u) = Some(last_call.weight)

\* connect on two distinct inserted keys that were not connected before
C3_Witness ==
  /\ IsConnect
  /\ last_call.u \in Inserted
  /\ last_call.v \in Inserted
  /\ last_call.u # last_call.v
  /\ prev_get_edge(last_call.v, last_call.u) = None
  /\ get_edge(last_call.v, last_call.u) = Some(last_call.weight)

(***************************************************************************)
(* C4.  connect(u, v, w) with u never inserted is a no-op: the vertex      *)
(* table and the edge store are as before the call, get_edge(u, v) is None *)
(* and the call has not panicked.                                          *)
(***************************************************************************)
C4_ConnectFromUnknownIsNoOp ==
  (IsConnect /\ last_call.u \notin Inserted) =>
    /\ vertex_map = prev.vertex_map
    /\ repr = prev.repr
    /\ get_edge(last_call.u, last_call.v) = None
    /\ ~panicked

\* connect from an unknown key to an inserted one, in a graph with an edge
C4_Witness ==
  /\ IsConnect
  /\ last_call.u \notin Inserted
  /\ last_call.v \in Inserted
  /\ \E x \in Keys, y \in Keys : get_edge(x, y) # None

(***************************************************************************)
(* C5.  As claimed: connect(u, v, w) with v never inserted leaves the      *)
(* graph state unchanged and get_edge(u, v) None, also when u was          *)
(* inserted.                                                               *)
(***************************************************************************)
C5_ConnectToUnknownIsNoOp ==
  (IsConnect /\ last_call.v \notin Inserted) =>
    /\ vertex_map = prev.vertex_map
    /\ repr = prev.repr
    /\ get_edge(last_call.u, last_call.v) = None

(***************************************************************************)
(* C5, amended.  On the facade built by new(), connect(u, v, w) with v     *)
(* never inserted does not panic and leaves the vertex table unchanged; it *)
(* is a no-op when u was never inserted either; when u was inserted it     *)
(* stores the edge: get_edge(u, v) is Some(w), and no other edge changes.  *)
(***************************************************************************)
C5_ConnectToUnknownStoresEdge ==
  (IsConnect /\ last_call.v \notin Inserted) =>
    /\ ~panicked
    /\ vertex_map = prev.vertex_map
    /\ IF last_call.u \notin Inserted
         THEN /\ repr = prev.repr
              /\ get_edge(last_call.u, last_call.v) = None
         ELSE /\ get_edge(last_call.u, last_call.v) = Some(last_call.weight)
              /\ \A x \in Keys, y \in Keys :
                   <<x, y>> # <<last_call.u, last_call.v>> =>
                     get_edge(x, y) = prev_get_edge(x, y)

\* connect from an inserted key to a key never inserted
C5_Witness ==
  /\ IsConnect
  /\ last_call.v \notin Inserted
  /\ last_call.u \in Inserted
  /\ prev_get_edge(last_call.u, last_call.v) = None
  /\ get_edge(last_call.u, last_call.v) = Some(last_call.weight)

(***************************************************************************)
(* C6.  Re-connecting an ordered pair (u, v) of inserted keys that is      *)
(* already connected overwrites the payload: get_edge(u, v) is Some of the *)
(* new payload, and the number of edges stored out of u is as it was after *)
(* the first connect.                                                      *)
(***************************************************************************)
C6_ReconnectOverwrites ==
  (/\ IsConnect
   /\ last_call.u \in Inserted
   /\ last_call.v \in Inserted
   /\ prev_get_edge(last_call.u, last_call.v) # None) =>
    /\ get_edge(last_call.u, last_call.v) = Some(last_call.weight)
    /\ StoredOut(repr, last_call.u) = StoredOut(prev.repr, last_call.u)
    /\ OutDegree(repr, last_call.u) = OutDegree(prev.repr, last_call.u)

\* the second connect carries another payload than the first
C6_Witness ==
  /\ IsConnect
  /\ last_call.u \in Inserted
  /\ last_call.v \in Inserted
  /\ prev_get_edge(last_call.u, last_call.v) # None
  /\ prev_get_edge(last_call.u, last_call.v) # Some(last_call.weight)
  /\ get_edge(last_call.u, last_call.v) = Some(last_call.weight)

(***************************************************************************)
(* C7.  List store: insert(k, v2) on a key k already present overwrites    *)
(* the vertex payload, get(k) = Some(v2), and resets the outgoing edges of *)
(* k: get_edge(k, x) is None for every key x.                              *)
(***************************************************************************)
C7_ReinsertResetsEdges ==
  (IsInsert /\ last_call.key \in DOMAIN prev.vertex_map) =>
    /\ get(last_call.key) = Some(last_call.value)
    /\ \A x \in Keys : get_edge(last_call.key, x) = None

\* the re-inserted key had another payload and an outgoing edge
C7_Witness ==
  /\ IsInsert
  /\ last_call.key \in DOMAIN prev.vertex_map
  /\ prev.vertex_map[last_call.key] # last_call.value
  /\ \E x \in Keys : prev_get_edge(last_call.key, x) # None
  /\ \A x \in Keys : get_edge(last_call.key, x) = None

(***************************************************************************)
(* C8.  As claimed: edges are never removed; once get_edge(u, v) is Some   *)
(* it is Some in every later state.                                        *)
(***************************************************************************)
C8_EdgesNeverRemoved ==
  [][\A u \in Keys, v \in Keys :
       get_edge(u, v) # None => get_edge(u, v)' # None]_vars

(***************************************************************************)
(* C9.  In every reachable state the key set of the vertex table equals    *)
(* the key set of the active store (the list's outer map, or the matrix's  *)
(* index map).                                                             *)
(***************************************************************************)
C9_KeySetsInLockstep == DOMAIN vertex_map = GraphRepr_keys(repr)

\* matrix store, two keys, one of them inserted twice, then a connect that
\* names a key never inserted
C9_Witness ==
  /\ repr.variant = "AdjacencyMatrix"
  /\ Cardinality(DOMAIN vertex_map) = 2
  /\ inserts > 2
  /\ IsConnect
  /\ last_call.v \notin Inserted

(***************************************************************************)
(* C10.  As claimed: in the matrix store the index of a key is stable;     *)
(* once idx_map[k] = i, it is i in every later state.                      *)
(***************************************************************************)
C10_IndexStable ==
  [][\A k \in DOMAIN repr.idx_map :
       /\ k \in DOMAIN repr.idx_map'
       /\ repr.idx_map'[k] = repr.idx_map[k]]_vars

(***************************************************************************)
(* C11.  Directed facade: connect(u, v, w) changes at most the edge        *)
(* (u, v); get(k) is unchanged for every key k, and get_edge(x, y) is      *)
(* unchanged for every ordered pair (x, y) other than (u, v).              *)
(***************************************************************************)
C11_ConnectFrame ==
  IsConnect =>
    /\ \A k \in Keys : get(k) = HashMap_get(prev.vertex_map, k)
    /\ \A x \in Keys, y \in Keys :
         <<x, y>> # <<last_call.u, last_call.v>> =>
           get_edge(x, y) = prev_get_edge(x, y)

\* a connect that stored a new edge between distinct keys while the graph
\* held another edge
C11_Witness ==
  /\ IsConnect
  /\ last_call.u # last_call.v
  /\ prev_get_edge(last_call.u, last_call.v) = None
  /\ get_edge(last_call.u, last_call.v) = Some(last_call.weight)
  /\ \E x \in Keys, y \in Keys :
       /\ <<x, y>> # <<last_call.u, last_call.v>>
       /\ prev_get_edge(x, y) # None

(***************************************************************************)
(* C12.  A facade built by new() uses the adjacency-list store, and no     *)
(* sequence of calls changes which store is active.                        *)
(***************************************************************************)
C12_ReprFixed == repr.variant = "AdjacencyList"

\* after inserts and a connect that stored an edge
C12_Witness ==
  /\ repr.variant = "AdjacencyList"
  /\ inserts >= 2
  /\ IsConnect
  /\ get_edge(last_call.u, last_call.v) # None

(***************************************************************************)
(* C13.  Matrix store: connect(u, v, w) where u or v has no index is a     *)
(* no-op; the index map and every cell are unchanged, get_edge(u, v) is    *)
(* None, and nothing panics.                                               *)
(***************************************************************************)
C13_MatrixConnectUnknownIsNoOp ==
  (/\ IsConnect
   /\ \/ last_call.u \notin DOMAIN prev.repr.idx_map
      \/ last_call.v \notin DOMAIN prev.repr.idx_map) =>
    /\ repr.idx_map = prev.repr.idx_map
    /\ repr.matrix = prev.repr.matrix
    /\ get_edge(last_call.u, last_call.v) = None
    /\ ~panicked

\* connect from an indexed key to a key without index, in a table that holds
\* an edge
C13_Witness ==
  /\ repr.variant = "AdjacencyMatrix"
  /\ IsConnect
  /\ last_call.u \in DOMAIN prev.repr.idx_map
  /\ last_call.v \notin DOMAIN prev.repr.idx_map
  /\ \E x \in Keys, y \in Keys : get_edge(x, y) # None

(***************************************************************************)
(* C14.  Inserting a key that is not yet present preserves what is stored, *)
(* in both stores: get(k') for every other key k' and get_edge(x, y) for   *)
(* every pair of previously inserted keys are unchanged; in the matrix     *)
(* store the new key's row and column are empty.                           *)
(***************************************************************************)
C14_InsertNewKeyFrame ==
  (IsInsert /\ last_call.key \notin DOMAIN prev.vertex_map) =>
    /\ \A k \in Keys \ {last_call.key} :
         get(k) = HashMap_get(prev.vertex_map, k)
    /\ \A x \in DOMAIN prev.vertex_map, y \in DOMAIN prev.vertex_map :
         get_edge(x, y) = prev_get_edge(x, y)
    /\ repr.variant = "AdjacencyMatrix" =>
         \A x \in Keys : /\ get_edge(last_call.key, x) = None
                         /\ get_edge(x, last_call.key) = None

\* matrix store: a new key arrives while two keys hold an edge
C14_Witness ==
  /\ repr.variant = "AdjacencyMatrix"
  /\ IsInsert
  /\ last_call.key \notin DOMAIN prev.vertex_map
  /\ \E x \in DOMAIN prev.vertex_map, y \in DOMAIN prev.vertex_map :
       /\ x # y
       /\ prev_get_edge(x, y) # None
       /\ get_edge(x, y) = prev_get_edge(x, y)

(***************************************************************************)
(* C15.  Matrix store: get_edge(u, v) is Some(w) only if u and v both have *)
(* an index and a connect(u, v, w) call set that cell; a pair that was     *)
(* never connected answers None.  Stated inductively: no pair answers Some *)
(* before the first call, and an answer Some(w) either was the answer      *)
(* before the most recent call or that call was connect(u, v, w).          *)
(***************************************************************************)
C15_MatrixOnlyConnected ==
  \A x \in Keys, y \in Keys :
    get_edge(x, y) # None =>
      /\ x \in DOMAIN repr.idx_map
      /\ y \in DOMAIN repr.idx_map
      /\ calls > 0
      /\ \/ get_edge(x, y) = prev_get_edge(x, y)
         \/ /\ IsConnect
            /\ last_call.u = x
            /\ last_call.v = y
            /\ get_edge(x, y) = Some(last_call.weight)

\* a connected pair answers Some while its reverse, never set, answers None
C15_Witness ==
  /\ repr.variant = "AdjacencyMatrix"
  /\ IsConnect
  /\ last_call.u # last_call.v
  /\ get_edge(last_call.u, last_call.v) = Some(last_call.weight)
  /\ get_edge(last_call.v, last_call.u) = None
  /\ inserts > Cardinality(DOMAIN repr.idx_map)

(***************************************************************************)
(* C16.  Self-loops, both stores: for an inserted key u, after             *)
(* connect(u, u, w), get_edge(u, u) is Some(w) and no other edge changes.  *)
(***************************************************************************)
C16_SelfLoop ==
  (IsConnect /\ last_call.u = last_call.v /\ last_call.u \in Inserted) =>
    /\ get_edge(last_call.u, last_call.u) = Some(last_call.weight)
    /\ \A x \in Keys, y \in Keys :
         <<x, y>> # <<last_call.u, last_call.u>> =>
           get_edge(x, y) = prev_get_edge(x, y)

\* a first self-loop on a key that already has an edge to another key
C16_Witness ==
  /\ IsConnect
  /\ last_call.u = last_call.v
  /\ last_call.u \in Inserted
  /\ prev_get_edge(last_call.u, last_call.u) = None
  /\ get_edge(last_call.u, last_call.u) = Some(last_call.weight)
  /\ \E y \in Keys \ {last_call.u} : get_edge(last_call.u, y) # None

(***************************************************************************)
(* C18.  Matrix store: in every reachable state the matrix has n rows of   *)
(* length n, n the number of insert calls made (re-inserts included), and  *)
(* every index of the index map is below n; so the index expressions of    *)
(* connect and get_edge are in bounds and never panic.                     *)
(***************************************************************************)
C18_MatrixSquareInBounds ==
  /\ Len(repr.matrix) = inserts
  /\ \A i \in 1..Len(repr.matrix) : Len(repr.matrix[i]) = inserts
  /\ \A k \in DOMAIN repr.idx_map : repr.idx_map[k] < inserts
  /\ \A u \in Keys, v \in Keys :
       /\ ~AdjacencyMatrix_connect_panics(repr, u, v)
       /\ ~AdjacencyMatrix_get_edge_panics(repr, u, v)
  /\ ~panicked

\* three inserts, one of them a re-insert, then a connect that set a cell
C18_Witness ==
  /\ repr.variant = "AdjacencyMatrix"
  /\ inserts = 3
  /\ Cardinality(DOMAIN repr.idx_map) = 2
  /\ IsConnect
  /\ get_edge(last_call.u, last_call.v) = Some(last_call.weight)

(***************************************************************************)
(* C17.  On well-formed histories (each key inserted at most once, every   *)
(* connect naming only keys already inserted) the list store and the       *)
(* matrix store answer get_edge(u, v) alike, for all u and v.              *)
(***************************************************************************)
C17_StoresAgree ==
  \A u \in Keys, v \in Keys :
    AdjacencyList_get_edge(repr, u, v) = AdjacencyMatrix_get_edge(twin, u, v)

\* two keys, an edge between them overwritten, the reverse edge absent
C17_Witness ==
  /\ IsConnect
  /\ last_call.u # last_call.v
  /\ prev_get_edge(last_call.u, last_call.v) # None
  /\ prev_get_edge(last_call.u, last_call.v) # Some(last_call.weight)
  /\ AdjacencyMatrix_get_edge(twin, last_call.u, last_call.v)
       = Some(last_call.weight)
  /\ AdjacencyMatrix_get_edge(twin, last_call.v, last_call.u) = None

\* without the restriction to well-formed histories the stores differ
C17_StoresAgreeOnAnyHistory ==
  \A u \in Keys, v \in Keys :
    GraphRepr_get_edge(repr, u, v) = GraphRepr_get_edge(twin, u, v)

=============================================================================
